---------------------------- MODULE Spec2Model ----------------------------
(***************************************************************************)
(* cchat auth-service: the dual-token (access + refresh) issuer and        *)
(* verifier (internal/lib/jwt), the AuthService orchestrator               *)
(* (internal/services/auth), the credential store                          *)
(* (internal/provider/storage/postgres/credential.go) and the HTTP         *)
(* handlers that map their results to status codes.                        *)
(*                                                                         *)
(* Time is counted in clock ticks, TicksPerSec ticks to the Unix second:   *)
(* time.Now() has sub-second resolution while a token's exp claim is       *)
(* stamped with time.Time.Unix(), whole seconds.                           *)
(***************************************************************************)
EXTENDS Integers, Sequences, FiniteSets, TLC

VARIABLES
    now,      \* the wall clock, in ticks
    jumps,    \* how many times the clock has advanced
    users,    \* identity provider: email -> identity or NilUser
    creds,    \* credentials table: user_id -> password hash or NoHash
    nextId,   \* the next identity id uuid.New() hands out
    last,     \* the last request served and its response
    txs,      \* the store writes in flight: writer -> transaction
    committed, \* the writers whose transaction committed, in commit order
    table,    \* the users table of the user service
    walk,     \* a client paging through the profiles
    msgdb     \* the chats and user_chats tables of the message service

vars == <<now, jumps, users, creds, nextId, last, txs, committed, table, walk,
          msgdb>>

---------------------------------------------------------------------------
(* Bounds of the model *)

\* clock ticks per Unix second
TicksPerSec == 2
\* the clock advances at most this many times in a behaviour
MaxJumps == 2
\* how many callers write the hash of one identity concurrently
MaxWriters == 2
\* how many rotations one refresh token is followed through
MaxReplays == 2
\* how many rows the users table of the user service holds at most
MaxRows == 4
\* the largest page size a client asks for
MaxLimit == 2
\* how many pages a client asks the list-profiles handler for
MaxCalls == 3

\* the chats the message service's store is followed for
MaxChats == 3

---------------------------------------------------------------------------
(* Time *)

Second == TicksPerSec
Minute == 60 * Second

accessDuration == 15 * Minute
\* refreshDuration as it would be if its 43200 counted seconds
refreshDuration_InSeconds == 43200 * Second
refreshDuration == 43200 * Minute

\* time.Time.Unix(): whole seconds, the fraction dropped
Unix(t) == t \div TicksPerSec

\* an exp claim (Unix seconds) as an instant
FromUnix(s) == s * TicksPerSec

---------------------------------------------------------------------------
(* Identities *)

Emails == {"a@x.com", "b@x.com"}
Usernames == {"neo"}
MaxUsers == Cardinality(Emails)
Ids == 1 .. MaxUsers

\* a nil *models.NormalizedUser (no identity id is 0)
NilUser == [uuid |-> 0, username |-> "", email |-> ""]

NormalizedUser(id, username, email) ==
    [uuid |-> id, username |-> username, email |-> email]

\* the identities tokens are minted for in the token specification
Identities ==
    { NormalizedUser(1, "neo", "a@x.com"), NormalizedUser(2, "neo", "b@x.com") }

---------------------------------------------------------------------------
(* Tokens.  A token string is determined by its header, its claims and   *)
(* the key it is signed with (HS256 is deterministic and MapClaims is      *)
(* marshalled with sorted keys), so a well-formed token is modelled by     *)
(* that record and two token strings are equal iff the records are.       *)

\* a claim of a MapClaims: a JSON string, absent, or of another JSON type
StrClaim(v) == [t |-> "str", v |-> v]
AbsentClaim == [t |-> "absent", v |-> ""]
IllTypedClaim == [t |-> "illtyped", v |-> ""]

\* the uuid claim: the text of a UUID in one of the forms uuid.Parse reads,
\* a string that is no UUID, absent, or not a string
UuidClaim(form, id) == [t |-> "str", form |-> form, id |-> id]
NoUuidClaim == [t |-> "absent", form |-> "", id |-> 0]
IllTypedUuidClaim == [t |-> "illtyped", form |-> "", id |-> 0]

UuidForms == {"canonical", "upper", "urn"}

\* no exp claim in the token
NoExp == -1

\* a string that is no JWT: raw is its text
Malformed(raw) ==
    [raw |-> raw, alg |-> "", key |-> "",
     uuid |-> NoUuidClaim, username |-> AbsentClaim, email |-> AbsentClaim,
     exp |-> NoExp]

\* the empty string returned in place of a token
NoToken == Malformed("")
Garbage == Malformed("garbage")

WellFormed(tok) == tok.raw = "jwt"

\* uuid.UUID.MarshalText as json.Marshal applies it to claims["uuid"]
UuidString(id) == UuidClaim("canonical", id)

\* jwt.NewPairTokens at instant t: <<access, refresh>>; signing with an
\* HMAC key and a []byte secret cannot fail
NewPairTokens(user, t) ==
    <<[raw |-> "jwt", alg |-> "HS256", key |-> "somesecret",
       uuid |-> UuidString(user.uuid),
       username |-> StrClaim(user.username),
       email |-> StrClaim(user.email),
       exp |-> Unix(t + accessDuration)],
      [raw |-> "jwt", alg |-> "HS256", key |-> "secret",
       uuid |-> NoUuidClaim, username |-> AbsentClaim, email |-> AbsentClaim,
       exp |-> Unix(t + refreshDuration)]>>

\* the claims a parse leaves in the caller's MapClaims: those of the payload
\* when the token has three decodable segments (they are decoded before the
\* signature is checked), none otherwise
ParsedClaims(tok) ==
    IF WellFormed(tok)
    THEN [uuid |-> tok.uuid, username |-> tok.username, email |-> tok.email]
    ELSE [uuid |-> NoUuidClaim, username |-> AbsentClaim, email |-> AbsentClaim]

\* jwt/v5 Parser.ParseWithClaims at instant t with a key function that
\* returns secret, after refusing a method that is not HMAC when hmacOnly:
\* "" for a nil error, else the error.  A token whose alg is none fails the
\* key function when it checks the method, and otherwise the none method's
\* own Verify, which refuses a []byte key.  The validator accepts exp iff
\* now.Before(exp)
JwtParse(tok, secret, hmacOnly, t) ==
    IF ~WellFormed(tok) THEN "jwt.ErrTokenMalformed"
    ELSE IF tok.alg # "HS256" /\ hmacOnly THEN "jwt.ErrTokenUnverifiable"
    ELSE IF tok.alg # "HS256" THEN "jwt.ErrTokenSignatureInvalid"
    ELSE IF tok.key # secret THEN "jwt.ErrTokenSignatureInvalid"
    ELSE IF tok.exp # NoExp /\ ~(t < FromUnix(tok.exp)) THEN "jwt.ErrTokenExpired"
    ELSE ""

\* extractUserFromClaims: <<user, err>>
extractUserFromClaims(claims) ==
    IF claims.uuid.t # "str"
    THEN <<NilUser, "missing or invalid 'uuid' in token claims">>
    ELSE IF claims.uuid.form \notin UuidForms
    THEN <<NilUser, "failed to parse 'uuid' from token claims">>
    ELSE IF claims.username.t # "str"
    THEN <<NilUser, "missing or invalid 'username' in token claims">>
    ELSE IF claims.email.t # "str"
    THEN <<NilUser, "missing or invalid 'email' in token claims">>
    ELSE <<NormalizedUser(claims.uuid.id, claims.username.v, claims.email.v), "">>

\* what VerifyAccessToken returns
Verdict(access, refresh, user, err) ==
    [access |-> access, refresh |-> refresh, user |-> user, err |-> err]

\* VerifyRefreshToken as it would be if refresh tokens were checked against
\* the access tokens' secret
VerifyRefreshToken_SharedSecret(user, refreshToken, t) ==
    LET err == JwtParse(refreshToken, "somesecret", FALSE, t)
        pair == NewPairTokens(user, t)
    IN  IF err # ""
        THEN Verdict(NoToken, NoToken, NilUser, err)
        ELSE Verdict(pair[1], pair[2], user, "")

\* VerifyRefreshToken as it would be if a refusal kept the identity it was
\* called with
VerifyRefreshToken_KeepsUser(user, refreshToken, t) ==
    LET err == JwtParse(refreshToken, "secret", FALSE, t)
        pair == NewPairTokens(user, t)
    IN  IF err # ""
        THEN Verdict(NoToken, NoToken, user, err)
        ELSE Verdict(pair[1], pair[2], user, "")

\* VerifyRefreshToken at instant t.  jwt.Parse returns a nil error only for a
\* token it has marked Valid, so the !refreshtoken.Valid branch is never
\* taken and every refusal carries the parser's own error
VerifyRefreshToken(user, refreshToken, t) ==
    LET err == JwtParse(refreshToken, "secret", FALSE, t)
        pair == NewPairTokens(user, t)
    IN  IF err # ""
        THEN Verdict(NoToken, NoToken, NilUser, err)
        ELSE Verdict(pair[1], pair[2], user, "")

\* VerifyAccessToken as it would be if it consulted the refresh token for a
\* valid access token too
VerifyAccessToken_AlwaysRotates(accessToken, refreshToken, t) ==
    LET err == JwtParse(accessToken, "somesecret", TRUE, t)
        ex == extractUserFromClaims(ParsedClaims(accessToken))
    IN  IF ex[2] # ""
        THEN Verdict(NoToken, NoToken, NilUser,
                     IF err # "" THEN "jwt.ErrUserUnauthorized" ELSE ex[2])
        ELSE VerifyRefreshToken(ex[1], refreshToken, t)

\* VerifyAccessToken as it would be if the refresh path handed the presented
\* pair back instead of minting one
VerifyAccessToken_EchoesPair(accessToken, refreshToken, t) ==
    LET err == JwtParse(accessToken, "somesecret", TRUE, t)
        ex == extractUserFromClaims(ParsedClaims(accessToken))
    IN  IF err # ""
        THEN IF ex[2] # ""
             THEN Verdict(NoToken, NoToken, NilUser, "jwt.ErrUserUnauthorized")
             ELSE IF JwtParse(refreshToken, "secret", FALSE, t) # ""
                  THEN VerifyRefreshToken(ex[1], refreshToken, t)
                  ELSE Verdict(accessToken, refreshToken, ex[1], "")
        ELSE IF ex[2] # ""
             THEN Verdict(NoToken, NoToken, NilUser, ex[2])
             ELSE Verdict(NoToken, NoToken, ex[1], "")

\* VerifyAccessToken as it would be if only an expired access token, and no
\* other failed one, were let onto the refresh path
VerifyAccessToken_ExpiredOnly(accessToken, refreshToken, t) ==
    LET err == JwtParse(accessToken, "somesecret", TRUE, t)
        ex == extractUserFromClaims(ParsedClaims(accessToken))
    IN  IF err # ""
        THEN IF ex[2] # "" \/ err # "jwt.ErrTokenExpired"
             THEN Verdict(NoToken, NoToken, NilUser, "jwt.ErrUserUnauthorized")
             ELSE VerifyRefreshToken(ex[1], refreshToken, t)
        ELSE IF ex[2] # ""
             THEN Verdict(NoToken, NoToken, NilUser, ex[2])
             ELSE Verdict(NoToken, NoToken, ex[1], "")

\* VerifyAccessToken at instant t
VerifyAccessToken(accessToken, refreshToken, t) ==
    LET err == JwtParse(accessToken, "somesecret", TRUE, t)
        ex == extractUserFromClaims(ParsedClaims(accessToken))
    IN  IF err # ""
        THEN IF ex[2] # ""
             THEN Verdict(NoToken, NoToken, NilUser, "jwt.ErrUserUnauthorized")
             ELSE VerifyRefreshToken(ex[1], refreshToken, t)
        ELSE IF ex[2] # ""
             THEN Verdict(NoToken, NoToken, NilUser, ex[2])
             ELSE Verdict(NoToken, NoToken, ex[1], "")

\* the verification state machine's state for a verdict
VerifyState(v) ==
    IF v.err # "" THEN "REJECTED"
    ELSE IF v.access = NoToken THEN "VALID"
    ELSE "EXPIRED_RETRYABLE"

\* cookie.CheckCookie: reads the access and refresh cookies and returns
\* VerifyAccessToken's verdict on them
CheckCookie(accessToken, refreshToken, t) ==
    VerifyAccessToken(accessToken, refreshToken, t)

\* session.CheckSession's status for the error cookie.CheckCookie hands it
CheckSessionStatus(err) ==
    IF err = "" THEN 200
    ELSE IF err \in {"http.ErrNoCookie", "jwt.ErrUserUnauthorized"} THEN 401
    ELSE 500

---------------------------------------------------------------------------
(* The token pairs a client can present *)

\* how old a presented token can be
Ages ==
    {0, 1, accessDuration - 1, accessDuration,
     refreshDuration - 1, refreshDuration}

IssueTimes(t) == { t - age : age \in {x \in Ages : x <= t} }

\* ways a token is altered after it was minted
Tamperings ==
    {"drop-uuid", "illtyped-uuid", "bad-uuid", "upper-uuid", "urn-uuid",
     "drop-username", "illtyped-username", "drop-email", "illtyped-email",
     "alg-none", "no-exp", "as-is"}

\* a token altered in the way how and signed with key
Tamper(tok, how, key) ==
    LET body ==
          CASE how = "drop-uuid" -> [tok EXCEPT !.uuid = NoUuidClaim]
            [] how = "illtyped-uuid" -> [tok EXCEPT !.uuid = IllTypedUuidClaim]
            [] how = "bad-uuid" -> [tok EXCEPT !.uuid.form = "bad"]
            [] how = "upper-uuid" -> [tok EXCEPT !.uuid.form = "upper"]
            [] how = "urn-uuid" -> [tok EXCEPT !.uuid.form = "urn"]
            [] how = "drop-username" -> [tok EXCEPT !.username = AbsentClaim]
            [] how = "illtyped-username" -> [tok EXCEPT !.username = IllTypedClaim]
            [] how = "drop-email" -> [tok EXCEPT !.email = AbsentClaim]
            [] how = "illtyped-email" -> [tok EXCEPT !.email = IllTypedClaim]
            [] how = "alg-none" -> [tok EXCEPT !.alg = "none"]
            [] how = "no-exp" -> [tok EXCEPT !.exp = NoExp]
            [] OTHER -> tok
    IN  [body EXCEPT !.key = key]

---------------------------------------------------------------------------
(* Passwords and bcrypt.  bcrypt keys Blowfish with the first 72 bytes of  *)
(* the password followed by a NUL, repeated cyclically, and ignores the    *)
(* rest; key72 stands for those 72 bytes and rest for what follows them.  *)
(* Two passwords with the same key72 are different byte strings that       *)
(* CompareHashAndPassword cannot tell apart.  GenerateFromPassword refuses *)
(* a password longer than 72 bytes (x/crypto since v0.5.0, the releases   *)
(* contemporary with the jwt/v5 this service imports).                     *)

Password(key72, rest) == [key72 |-> key72, rest |-> rest]

\* the secret gofakeit.Password(true, true, true, true, false, 14) returns
GeneratedSecrets == { Password("Tz4!kQ9#wLp2$e", "") }

\* what a client types: two passwords that differ within their first 72
\* bytes, and one that agrees with the first on them
UserPasswords ==
    { Password("password1", ""), Password("password1", "x"),
      Password("newpass1", "") }

Passwords == UserPasswords \cup GeneratedSecrets

\* the 16 random bytes bcrypt salts a hash with
Salts == {"salt1", "salt2"}

\* no row / no hash
NoHash == [key72 |-> "", salt |-> ""]

\* the salts bcrypt can draw for a hash that replaces hash: the chance of
\* drawing the stored hash's 16 bytes again is 2^-128
FreshSalts(hash) == Salts \ {hash.salt}

\* bcrypt.GenerateFromPassword with the salt it drew: <<hash, err>>; fault
\* "hash" is the salt's random source failing
GenerateFromPassword(password, salt, fault) ==
    IF password.rest # "" THEN <<NoHash, "bcrypt.ErrPasswordTooLong">>
    ELSE IF fault = "hash" THEN <<NoHash, "crypto/rand error">>
    ELSE <<[key72 |-> password.key72, salt |-> salt], "">>

\* bcrypt.CompareHashAndPassword: TRUE for a nil error
CompareHashAndPassword(hash, password) ==
    hash # NoHash /\ hash.key72 = password.key72

---------------------------------------------------------------------------
(* Failures of the collaborators.  A request meets at most one:            *)
(*   user         the identity provider call fails (transport, timeout)   *)
(*   hash         bcrypt.GenerateFromPassword cannot draw its salt        *)
(*   read-fail    Begin or the SELECT of the credential read fails        *)
(*   read-commit  the Commit of the credential read fails                 *)
(*   write-fail   Begin or the INSERT/UPDATE of the credential write fails *)
(*   write-commit the Commit of the credential write fails                *)

ReadFaults == {"none", "user", "read-fail", "read-commit"}
WriteFaults == {"none", "user", "hash", "write-fail", "write-commit"}

---------------------------------------------------------------------------
(* The credential store, credential.go.  Each operation returns the table  *)
(* after the call and the error it reports.                                *)

\* Storage.Register.  err is a local of the function, not a named result:
\* the deferred closure's assignment of the commit error is lost
StorageRegister(c, uid, passHash, fault) ==
    IF fault = "write-fail" THEN <<c, "context.DeadlineExceeded">>
    ELSE IF c[uid] # NoHash THEN <<c, "pgconn.PgError 23505">>
    ELSE IF fault = "write-commit" THEN <<c, "">>
    ELSE <<[c EXCEPT ![uid] = passHash], "">>

\* Storage.Login: <<hash, err>>
StorageLogin(c, uid, fault) ==
    IF fault = "read-fail" THEN <<NoHash, "context.DeadlineExceeded">>
    ELSE IF c[uid] = NoHash THEN <<NoHash, "pgx.ErrNoRows">>
    ELSE <<c[uid], "">>

\* Storage.Password: <<hash, err>>, err a named result the deferred closure
\* sets when the commit fails
StoragePassword(c, uid, fault) ==
    IF fault = "read-fail" THEN <<NoHash, "context.DeadlineExceeded">>
    ELSE IF c[uid] = NoHash THEN <<NoHash, "pgx.ErrNoRows">>
    ELSE IF fault = "read-commit" THEN <<c[uid], "commit: context.DeadlineExceeded">>
    ELSE <<c[uid], "">>

\* Storage.ChangePassword as it would be if its UPDATE replaced the hash
\* piecewise, the salt of the row surviving the write
StorageChangePassword_KeepsSalt(c, uid, newPasswordHash, fault) ==
    IF fault = "write-fail" THEN <<c, "context.DeadlineExceeded">>
    ELSE IF c[uid] = NoHash THEN <<c, "pgx.ErrNoRows">>
    ELSE IF fault = "write-commit" THEN <<c, "">>
    ELSE <<[c EXCEPT ![uid].key72 = newPasswordHash.key72], "">>

\* Storage.ChangePassword
StorageChangePassword(c, uid, newPasswordHash, fault) ==
    IF fault = "write-fail" THEN <<c, "context.DeadlineExceeded">>
    ELSE IF c[uid] = NoHash THEN <<c, "pgx.ErrNoRows">>
    ELSE IF fault = "write-commit" THEN <<c, "">>
    ELSE <<[c EXCEPT ![uid] = newPasswordHash], "">>

\* the errors of the driver that row.Scan hands the store's operations: no
\* row for the uid, and the unique violation of a second row for it
RawPersistenceErrors == {"pgx.ErrNoRows", "pgconn.PgError 23505"}

---------------------------------------------------------------------------
(* The identity provider behind AuthService.user *)

\* UserProvider.GetUser: <<user, err>>
GetUser(u, email, fault) ==
    IF fault = "user" THEN <<NilUser, "transport error">>
    ELSE IF u[email] = NilUser THEN <<NilUser, "storage.ErrUserNotFound">>
    ELSE <<u[email], "">>

\* UserProvider.CreateUser: <<users after the call, user, err>>
CreateUser(u, id, email, username, fault) ==
    IF fault = "user" THEN <<u, NilUser, "transport error">>
    ELSE IF u[email] # NilUser THEN <<u, NilUser, "unexpected status code 500">>
    ELSE LET user == NormalizedUser(id, username, email)
         IN  <<[u EXCEPT ![email] = user], user, "">>

---------------------------------------------------------------------------
(* AuthService, services/auth.  An operation yields what it returns (user, *)
(* access, refresh, err), the return statement it left by (path), whether  *)
(* it issued a credential write (wrote), and the identity provider's and   *)
(* the credential store's contents after it.                               *)

Out(user, access, refresh, err, path, wrote, u, c) ==
    [user |-> user, access |-> access, refresh |-> refresh, err |-> err,
     path |-> path, wrote |-> wrote, users |-> u, creds |-> c]

\* AuthService.Login as it would be if it reported an unknown email as such
Login_ReportsUnknownEmail(email, password, fault, t) ==
    LET gu == GetUser(users, email, fault)
        user == gu[1]
        sl == StorageLogin(creds, user.uuid, fault)
        pair == NewPairTokens(user, t)
        Fail(err, path) ==
            Out(NilUser, NoToken, NoToken, err, path, FALSE, users, creds)
    IN  IF gu[2] = "storage.ErrUserNotFound"
        THEN Fail("auth.ErrUserNotFound", "user-not-found")
        ELSE IF gu[2] # "" THEN Fail(gu[2], "user-error")
        ELSE IF sl[2] = "storage.ErrUserNotFound"
        THEN Fail("auth.ErrInvalidCredentials", "credential-not-found")
        ELSE IF sl[2] # "" THEN Fail(sl[2], "credential-error")
        ELSE IF ~CompareHashAndPassword(sl[1], password)
        THEN Fail("auth.ErrInvalidCredentials", "mismatch")
        ELSE Out(user, pair[1], pair[2], "", "ok", FALSE, users, creds)

\* AuthService.Login at instant t
Login(email, password, fault, t) ==
    LET gu == GetUser(users, email, fault)
        user == gu[1]
        sl == StorageLogin(creds, user.uuid, fault)
        pair == NewPairTokens(user, t)
        Fail(err, path) ==
            Out(NilUser, NoToken, NoToken, err, path, FALSE, users, creds)
    IN  IF gu[2] = "storage.ErrUserNotFound"
        THEN Fail("auth.ErrInvalidCredentials", "user-not-found")
        ELSE IF gu[2] # "" THEN Fail(gu[2], "user-error")
        ELSE IF sl[2] = "storage.ErrUserNotFound"
        THEN Fail("auth.ErrInvalidCredentials", "credential-not-found")
        ELSE IF sl[2] # "" THEN Fail(sl[2], "credential-error")
        ELSE IF ~CompareHashAndPassword(sl[1], password)
        THEN Fail("auth.ErrInvalidCredentials", "mismatch")
        ELSE Out(user, pair[1], pair[2], "", "ok", FALSE, users, creds)

\* AuthService.RegisterNewUser at instant t; id, username and salt are what
\* uuid.New, gofakeit.Username and bcrypt's salt generator draw
RegisterNewUser(email, password, id, username, salt, fault, t) ==
    LET cu == CreateUser(users, id, email, username, fault)
        user == cu[2]
        gen == GenerateFromPassword(password, salt, fault)
        sr == StorageRegister(creds, user.uuid, gen[1], fault)
        pair == NewPairTokens(user, t)
        Fail(err, path, wrote, u, c) ==
            Out(NilUser, NoToken, NoToken, err, path, wrote, u, c)
    IN  IF cu[3] # ""
        THEN Fail("auth.ErrFailedToGetUser", "create-error", FALSE, cu[1], creds)
        ELSE IF gen[2] # ""
        THEN Fail(gen[2], "hash-error", FALSE, cu[1], creds)
        ELSE IF sr[2] = "storage.ErrUserExists"
        THEN Fail("auth.ErrUserExists", "credential-exists", TRUE, cu[1], sr[1])
        ELSE IF sr[2] # ""
        THEN Fail(sr[2], "credential-error", TRUE, cu[1], sr[1])
        ELSE Out(user, pair[1], pair[2], "", "ok", TRUE, cu[1], sr[1])

\* AuthService.ChangePassword as it would be if it answered an unknown email
\* as it answers a wrong previous password
ChangePassword_HidesUnknownEmail(email, previousPassword, newPassword, salt, fault) ==
    LET gu == GetUser(users, email, fault)
        user == gu[1]
        sp == StoragePassword(creds, user.uuid, fault)
        gen == GenerateFromPassword(newPassword, salt, fault)
        sc == StorageChangePassword(creds, user.uuid, gen[1], fault)
        Ret(err, path, wrote, c) ==
            Out(NilUser, NoToken, NoToken, err, path, wrote, users, c)
    IN  IF gu[2] = "storage.ErrUserNotFound"
        THEN Ret("auth.ErrInvalidCredentials", "mismatch", FALSE, creds)
        ELSE IF gu[2] # "" THEN Ret(gu[2], "user-error", FALSE, creds)
        ELSE IF sp[2] # "" THEN Ret(sp[2], "credential-error", FALSE, creds)
        ELSE IF ~CompareHashAndPassword(sp[1], previousPassword)
        THEN Ret("auth.ErrInvalidCredentials", "mismatch", FALSE, creds)
        ELSE IF gen[2] # "" THEN Ret(gen[2], "hash-error", FALSE, creds)
        ELSE IF sc[2] = "storage.ErrUserExists"
        THEN Ret("auth.ErrUserExists", "credential-exists", TRUE, sc[1])
        ELSE IF sc[2] # "" THEN Ret(sc[2], "write-error", TRUE, sc[1])
        ELSE Ret("", "ok", TRUE, sc[1])

\* AuthService.ChangePassword as it would be if it wrote the new hash before
\* comparing the previous password
ChangePassword_WritesFirst(email, previousPassword, newPassword, salt, fault) ==
    LET gu == GetUser(users, email, fault)
        user == gu[1]
        sp == StoragePassword(creds, user.uuid, fault)
        gen == GenerateFromPassword(newPassword, salt, fault)
        sc == StorageChangePassword(creds, user.uuid, gen[1], fault)
        Ret(err, path, wrote, c) ==
            Out(NilUser, NoToken, NoToken, err, path, wrote, users, c)
    IN  IF gu[2] = "storage.ErrUserNotFound"
        THEN Ret("auth.ErrUserNotFound", "user-not-found", FALSE, creds)
        ELSE IF gu[2] # "" THEN Ret(gu[2], "user-error", FALSE, creds)
        ELSE IF sp[2] # "" THEN Ret(sp[2], "credential-error", FALSE, creds)
        ELSE IF gen[2] # "" THEN Ret(gen[2], "hash-error", FALSE, creds)
        ELSE IF sc[2] = "storage.ErrUserExists"
        THEN Ret("auth.ErrUserExists", "credential-exists", TRUE, sc[1])
        ELSE IF sc[2] # "" THEN Ret(sc[2], "write-error", TRUE, sc[1])
        ELSE IF ~CompareHashAndPassword(sp[1], previousPassword)
        THEN Ret("auth.ErrInvalidCredentials", "mismatch", TRUE, sc[1])
        ELSE Ret("", "ok", TRUE, sc[1])

\* AuthService.ChangePassword
ChangePassword(email, previousPassword, newPassword, salt, fault) ==
    LET gu == GetUser(users, email, fault)
        user == gu[1]
        sp == StoragePassword(creds, user.uuid, fault)
        gen == GenerateFromPassword(newPassword, salt, fault)
        sc == StorageChangePassword(creds, user.uuid, gen[1], fault)
        Ret(err, path, wrote, c) ==
            Out(NilUser, NoToken, NoToken, err, path, wrote, users, c)
    IN  IF gu[2] = "storage.ErrUserNotFound"
        THEN Ret("auth.ErrUserNotFound", "user-not-found", FALSE, creds)
        ELSE IF gu[2] # "" THEN Ret(gu[2], "user-error", FALSE, creds)
        ELSE IF sp[2] # "" THEN Ret(sp[2], "credential-error", FALSE, creds)
        ELSE IF ~CompareHashAndPassword(sp[1], previousPassword)
        THEN Ret("auth.ErrInvalidCredentials", "mismatch", FALSE, creds)
        ELSE IF gen[2] # "" THEN Ret(gen[2], "hash-error", FALSE, creds)
        ELSE IF sc[2] = "storage.ErrUserExists"
        THEN Ret("auth.ErrUserExists", "credential-exists", TRUE, sc[1])
        ELSE IF sc[2] # "" THEN Ret(sc[2], "write-error", TRUE, sc[1])
        ELSE Ret("", "ok", TRUE, sc[1])

\* AuthService.ResetPassword; key is the secret gofakeit.Password generated
ResetPassword(email, key, salt, fault) ==
    LET gu == GetUser(users, email, fault)
        user == gu[1]
        gen == GenerateFromPassword(key, salt, fault)
        sc == StorageChangePassword(creds, user.uuid, gen[1], fault)
        Ret(err, path, wrote, c) ==
            Out(NilUser, NoToken, NoToken, err, path, wrote, users, c)
    IN  IF gu[2] = "storage.ErrUserNotFound"
        THEN Ret("auth.ErrUserNotFound", "user-not-found", FALSE, creds)
        ELSE IF gu[2] # "" THEN Ret(gu[2], "user-error", FALSE, creds)
        ELSE IF gen[2] # "" THEN Ret(gen[2], "hash-error", FALSE, creds)
        ELSE IF sc[2] = "storage.ErrUserExists"
        THEN Ret("auth.ErrUserExists", "credential-exists", TRUE, sc[1])
        ELSE IF sc[2] # "" THEN Ret(sc[2], "write-error", TRUE, sc[1])
        ELSE Ret("", "ok", TRUE, sc[1])

\* a call AuthService makes on one of its collaborators (auth, user); secret
\* tells whether the plaintext of a generated secret is among its arguments
Call(to, method, secret) == [to |-> to, method |-> method, secret |-> secret]

\* the collaborator calls AuthService.ChangePassword has made when it
\* returns by path: the identity lookup, the read of the stored hash, the
\* store write
ChangePasswordCalls(path) ==
    IF path \in {"user-not-found", "user-error"}
    THEN <<Call("user", "GetUser", FALSE)>>
    ELSE IF path \in {"credential-error", "mismatch", "hash-error"}
    THEN <<Call("user", "GetUser", FALSE), Call("auth", "Password", FALSE)>>
    ELSE <<Call("user", "GetUser", FALSE), Call("auth", "Password", FALSE),
           Call("auth", "ChangePassword", FALSE)>>

\* the collaborator calls AuthService.ResetPassword has made when it returns
\* by path: the identity lookup, then the store write, which is handed
\* the hash of the generated key and not the key
ResetPasswordCalls(path) ==
    IF path \in {"user-not-found", "user-error", "hash-error"}
    THEN <<Call("user", "GetUser", FALSE)>>
    ELSE <<Call("user", "GetUser", FALSE), Call("auth", "ChangePassword", FALSE)>>

---------------------------------------------------------------------------
(* The HTTP handlers, handlers/auth: render.Status and the JSON body *)

Response(status, bodyStatus, text) ==
    [status |-> status, bodyStatus |-> bodyStatus, text |-> text]

NoResponse == Response(0, 0, "")

\* AuthHandler.Login
LoginResponse(err) ==
    IF err = "" THEN Response(200, 200, "user")
    ELSE IF err = "auth.ErrInvalidCredentials"
    THEN Response(409, 409, "invalid email or password")
    ELSE Response(500, 500, "internal error")

\* AuthHandler.Register
RegisterResponse(err) ==
    IF err = "" THEN Response(200, 200, "user")
    ELSE IF err = "auth.ErrUserExists"
    THEN Response(409, 409, "user already exists")
    ELSE Response(500, 500, "internal error")

\* AuthHandler.ChangePassword
ChangePasswordResponse(err) ==
    IF err = "" THEN Response(200, 200, "password changed successfully")
    ELSE IF err = "auth.ErrInvalidCredentials"
    THEN Response(409, 400, "invalid email or password")
    ELSE Response(500, 500, "internal error")

\* AuthHandler.ResetPassword writes nothing: net/http answers a handler that
\* returned without writing with status 200 and an empty body
ResetPasswordResponse == Response(200, 0, "")

\* session.CheckSession
CheckSessionResponse(err) ==
    IF err = "" THEN Response(200, 200, "user")
    ELSE Response(CheckSessionStatus(err), CheckSessionStatus(err),
                  "user unauthorized")

---------------------------------------------------------------------------
(* The system: requests served one at a time against the identity          *)
(* provider and the credential store, and the clock.                       *)

\* the record of a request: what was asked (op, at, email, password,
\* newPassword, fault, a, r; subject and issuedAt tell for whom and when the
\* presented access token was minted, when it is an unaltered minted one),
\* what the service returned (user, access, refresh, err, path, wrote) and
\* what the handler answered (http)
NoRequest ==
    [op |-> "", at |-> 0, email |-> "", password |-> Password("", ""),
     newPassword |-> Password("", ""), fault |-> "none",
     a |-> NoToken, r |-> NoToken, subject |-> NilUser, issuedAt |-> -1,
     user |-> NilUser, access |-> NoToken, refresh |-> NoToken, err |-> "",
     path |-> "", wrote |-> FALSE, http |-> NoResponse, rotations |-> 0]

Served(req, out, http) ==
    [req EXCEPT !.user = out.user, !.access = out.access,
                !.refresh = out.refresh, !.err = out.err, !.path = out.path,
                !.wrote = out.wrote, !.http = http]

\* the concurrent callers of Storage.ChangePassword
Writers == 1 .. MaxWriters

\* a transaction of Storage.ChangePassword: where its caller stands (idle,
\* begun after pool.Begin, updated after the UPDATE, then committed, or
\* failed with the transaction rolled back) and the hash it was called with
Tx(pc, hash) == [pc |-> pc, hash |-> hash]

NoTx == Tx("idle", NoHash)

\* no store write is in flight
Quiet == /\ txs = [w \in Writers |-> NoTx]
         /\ committed = <<>>

\* no client is paging
NoWalk == [via |-> "", username |-> <<>>, limit |-> 0,
          cursor |-> [c |-> <<>>, u |-> NoUuidClaim],
          hasNext |-> FALSE, seen |-> <<>>, page |-> <<>>, calls |-> 0,
          status |-> 0]

\* the message service's tables, empty
NoChats == [chats |-> {}, user_chats |-> {}]

\* the user service and the message service are not involved
Elsewhere ==
    /\ table = {}
    /\ walk = NoWalk
    /\ msgdb = NoChats

Init ==
    /\ Elsewhere
    /\ Quiet
    /\ now = 0
    /\ jumps = 0
    /\ users = [e \in Emails |-> NilUser]
    /\ creds = [i \in Ids |-> NoHash]
    /\ nextId = 1
    /\ last = NoRequest

\* time passes
Tick(d) ==
    /\ jumps < MaxJumps
    /\ now' = now + d
    /\ jumps' = jumps + 1
    /\ UNCHANGED <<users, creds, nextId, last, txs, committed, table, walk, msgdb>>

\* the salts bcrypt can draw while it hashes a new password for email
SaltsFor(email) ==
    IF users[email] = NilUser THEN Salts
    ELSE FreshSalts(creds[users[email].uuid])

\* POST /auth/register
RegisterReq(email, password, username, salt, fault) ==
    LET req == [NoRequest EXCEPT !.op = "Register", !.at = now, !.email = email,
                                 !.password = password, !.fault = fault]
    IN  \E out \in {RegisterNewUser(email, password, nextId, username, salt,
                                     fault, now)} :
        /\ users' = out.users
        /\ creds' = out.creds
        /\ nextId' = IF out.users # users THEN nextId + 1 ELSE nextId
        /\ last' = Served(req, out, RegisterResponse(out.err))
        /\ UNCHANGED <<now, jumps, txs, committed, table, walk, msgdb>>

\* POST /auth/login
LoginReq(email, password, fault) ==
    LET req == [NoRequest EXCEPT !.op = "Login", !.at = now, !.email = email,
                                 !.password = password, !.fault = fault]
    IN  \E out \in {Login(email, password, fault, now)} :
        /\ last' = Served(req, out, LoginResponse(out.err))
        /\ UNCHANGED <<now, jumps, users, creds, nextId, txs, committed, table, walk, msgdb>>

\* the change-password request
ChangePasswordReq(email, previousPassword, newPassword, fault) ==
    LET req == [NoRequest EXCEPT !.op = "ChangePassword", !.at = now,
                                 !.email = email, !.password = previousPassword,
                                 !.newPassword = newPassword, !.fault = fault]
    IN  \E salt \in SaltsFor(email) :
        \E out \in {ChangePassword(email, previousPassword, newPassword, salt,
                                    fault)} :
        /\ creds' = out.creds
        /\ last' = Served(req, out, ChangePasswordResponse(out.err))
        /\ UNCHANGED <<now, jumps, users, nextId, txs, committed, table, walk, msgdb>>

\* a call of AuthService.ResetPassword; newPassword records the generated
\* secret, which the call returns to nobody
ResetPasswordCall(email, key, fault) ==
    LET req == [NoRequest EXCEPT !.op = "ResetPassword", !.at = now,
                                 !.email = email, !.newPassword = key,
                                 !.fault = fault]
    IN  \E salt \in SaltsFor(email) :
        \E out \in {ResetPassword(email, key, salt, fault)} :
        /\ creds' = out.creds
        /\ last' = Served(req, out, NoResponse)
        /\ UNCHANGED <<now, jumps, users, nextId, txs, committed, table, walk, msgdb>>

\* the reset-password request: AuthHandler.ResetPassword logs and returns;
\* it neither decodes the request nor calls AuthService.ResetPassword
ResetPasswordReq(email) ==
    /\ last' = [NoRequest EXCEPT !.op = "ResetPasswordHandler", !.at = now,
                                 !.email = email,
                                 !.http = ResetPasswordResponse]
    /\ UNCHANGED <<now, jumps, users, creds, nextId, txs, committed, table, walk, msgdb>>

\* the requests the service serves, their inputs drawn from the given sets
Requests(emails, passwords, readFaults, writeFaults) ==
    \/ \E e \in emails, p \in passwords, u \in Usernames, s \in Salts,
          f \in writeFaults :
          RegisterReq(e, p, u, s, f)
    \/ \E e \in emails, p \in passwords \cup GeneratedSecrets,
          f \in readFaults :
          LoginReq(e, p, f)
    \/ \E e \in emails, p \in passwords \cup GeneratedSecrets, q \in passwords,
          f \in readFaults \cup writeFaults :
          ChangePasswordReq(e, p, q, f)
    \/ \E e \in emails, k \in GeneratedSecrets, f \in writeFaults :
          ResetPasswordCall(e, k, f)
    \/ \E e \in emails : ResetPasswordReq(e)

\* the service with every collaborator working
Next ==
    \/ Tick(1)
    \/ Requests(Emails, UserPasswords, {"none"}, {"none"})

Spec == Init /\ [][Next]_vars

\* the service with collaborators that fail
NextFaults ==
    \/ Tick(1)
    \/ Requests({"a@x.com"}, {Password("password1", ""), Password("newpass1", "")},
                ReadFaults, WriteFaults)

SpecFaults == Init /\ [][NextFaults]_vars

---------------------------------------------------------------------------
(* Concurrent credential writes.  Several callers of ChangePassword or     *)
(* ResetPassword for one identity have each hashed their new password and  *)
(* entered Storage.ChangePassword, which runs one UPDATE inside its own    *)
(* transaction.  PostgreSQL holds the row lock of an UPDATE until its      *)
(* transaction ends, and makes the new row visible at the commit.          *)

\* the identity all of them write to, and the password it registered with
Owner == "a@x.com"

OwnerPassword == Password("password1", "")

\* the state after one successful Register of email with password
Registered(email, password, username, salt) ==
    LET cu == CreateUser([e \in Emails |-> NilUser], 1, email, username, "none")
        gen == GenerateFromPassword(password, salt, "none")
    IN  /\ users = cu[1]
        /\ creds = StorageRegister([i \in Ids |-> NoHash], cu[2].uuid, gen[1],
                                   "none")[1]
        /\ nextId = 2

InitConc ==
    /\ Elsewhere
    /\ Quiet
    /\ now = 0
    /\ jumps = 0
    /\ last = NoRequest
    /\ \E u \in Usernames, s \in Salts : Registered(Owner, OwnerPassword, u, s)

\* pool.Begin of Storage.ChangePassword, called with the hash the service
\* made of its new password; a failing Begin returns at once
TxBegin(w, password, salt, ok) ==
    /\ txs[w].pc = "idle"
    /\ \E gen \in {GenerateFromPassword(password, salt, "none")} :
           /\ gen[2] = ""
           /\ txs' = [txs EXCEPT ![w] = Tx(IF ok THEN "begun" ELSE "failed",
                                           gen[1])]
    /\ UNCHANGED <<now, jumps, users, creds, nextId, last, committed, table, walk, msgdb>>

\* the UPDATE ... RETURNING id: it waits while another transaction holds the
\* row; when it fails the deferred function rolls the transaction back
TxUpdate(w, ok) ==
    /\ txs[w].pc = "begun"
    /\ ok => \A v \in Writers \ {w} : txs[v].pc # "updated"
    /\ txs' = [txs EXCEPT ![w].pc = IF ok THEN "updated" ELSE "failed"]
    /\ UNCHANGED <<now, jumps, users, creds, nextId, last, committed, table, walk, msgdb>>

\* the deferred tx.Commit
TxCommit(w, ok) ==
    /\ txs[w].pc = "updated"
    /\ \E sc \in {StorageChangePassword(creds, users[Owner].uuid, txs[w].hash,
                                         IF ok THEN "none" ELSE "write-commit")} :
           creds' = sc[1]
    /\ txs' = [txs EXCEPT ![w].pc = IF ok THEN "committed" ELSE "failed"]
    /\ committed' = IF ok THEN Append(committed, w) ELSE committed
    /\ UNCHANGED <<now, jumps, users, nextId, last, table, walk, msgdb>>

NextConc ==
    \/ \E w \in Writers, p \in Passwords, s \in Salts, ok \in BOOLEAN :
          TxBegin(w, p, s, ok)
    \/ \E w \in Writers, ok \in BOOLEAN : TxUpdate(w, ok)
    \/ \E w \in Writers, ok \in BOOLEAN : TxCommit(w, ok)

SpecConc == InitConc /\ [][NextConc]_vars

---------------------------------------------------------------------------
(* Concurrent calls of AuthService.ChangePassword and ResetPassword for   *)
(* one identity.  ChangePassword reads the hash in one transaction        *)
(* (Storage.Password), compares and hashes outside any transaction, and   *)
(* writes in another (Storage.ChangePassword); ResetPassword hashes and    *)
(* writes.  Each store call is one step: its transaction is atomic.  Here *)
(* txs[w] tells where caller w stands: idle, checked (ChangePassword has   *)
(* verified the previous password and holds its new hash), generated      *)
(* (ResetPassword holds the hash of its secret), changed or reset (the     *)
(* call returned nil), failed (it returned an error).  Every caller of     *)
(* ChangePassword presents OwnerPassword as the previous password.         *)

\* ChangePassword up to its write: GetUser, Storage.Password,
\* CompareHashAndPassword with the previous password, GenerateFromPassword
ChangePasswordCheck(w, newPassword, salt) ==
    /\ txs[w].pc = "idle"
    /\ \E sp \in {StoragePassword(creds, users[Owner].uuid, "none")},
          gen \in {GenerateFromPassword(newPassword, salt, "none")} :
          txs' = [txs EXCEPT ![w] =
                    IF sp[2] # "" \/ ~CompareHashAndPassword(sp[1], OwnerPassword)
                          \/ gen[2] # ""
                    THEN Tx("failed", NoHash)
                    ELSE Tx("checked", gen[1])]
    /\ UNCHANGED <<now, jumps, users, creds, nextId, last, committed, table, walk, msgdb>>

\* ResetPassword up to its write: GetUser, gofakeit.Password,
\* GenerateFromPassword
ResetPasswordGenerate(w, key, salt) ==
    /\ txs[w].pc = "idle"
    /\ \E gen \in {GenerateFromPassword(key, salt, "none")} :
          txs' = [txs EXCEPT ![w] = IF gen[2] # "" THEN Tx("failed", NoHash)
                                   ELSE Tx("generated", gen[1])]
    /\ UNCHANGED <<now, jumps, users, creds, nextId, last, committed, table, walk, msgdb>>

\* the a.auth.ChangePassword call that ends both operations, and their
\* return
PasswordWrite(w) ==
    /\ txs[w].pc \in {"checked", "generated"}
    /\ \E sc \in {StorageChangePassword(creds, users[Owner].uuid, txs[w].hash,
                                         "none")} :
          /\ creds' = sc[1]
          /\ txs' = [txs EXCEPT ![w].pc =
                        IF sc[2] # "" THEN "failed"
                        ELSE IF txs[w].pc = "checked" THEN "changed" ELSE "reset"]
          /\ committed' = IF sc[2] = "" THEN Append(committed, w) ELSE committed
    /\ UNCHANGED <<now, jumps, users, nextId, last, table, walk, msgdb>>

NextRace ==
    \/ \E w \in Writers, p \in Passwords \ {OwnerPassword}, s \in Salts :
          ChangePasswordCheck(w, p, s)
    \/ \E w \in Writers, k \in GeneratedSecrets, s \in Salts :
          ResetPasswordGenerate(w, k, s)
    \/ \E w \in Writers : PasswordWrite(w)

SpecRace == InitConc /\ [][NextRace]_vars

---------------------------------------------------------------------------
(* Token verification on its own.  VerifyAccessToken is a function of the  *)
(* presented pair and the clock, so the instant and the pair are drawn by  *)
(* the initial state and the one action serves the pending session check.  *)

\* the instants a session check is served at
Instants ==
    {0, 1, accessDuration, accessDuration + 1,
     refreshDuration, refreshDuration + 1}

\* an access token a client presents at instant t, with the identity and
\* the instant it was minted for (NilUser, -1 when it was altered since)
Presented(a, subject, issuedAt) ==
    [a |-> a, subject |-> subject, issuedAt |-> issuedAt]

AccessCandidates(t) ==
    { Presented(NewPairTokens(u, t0)[1], u, t0) :
        u \in Identities, t0 \in IssueTimes(t) }
    \cup { Presented(Tamper(NewPairTokens(u, t0)[1], how, key), NilUser, -1) :
             u \in Identities, t0 \in {x \in IssueTimes(t) : t - x <= accessDuration},
             how \in Tamperings, key \in {"somesecret", "other"} }
    \cup { Presented(NewPairTokens(u, t)[2], NilUser, -1) : u \in Identities }
    \cup { Presented(Garbage, NilUser, -1), Presented(NoToken, NilUser, -1) }

RefreshCandidates(t) ==
    { NewPairTokens(u, t0)[2] : u \in Identities, t0 \in IssueTimes(t) }
    \cup { Tamper(NewPairTokens(u, t)[2], how, key) :
             u \in Identities, how \in {"alg-none", "no-exp", "as-is"},
             key \in {"somesecret", "other"} }
    \cup { NewPairTokens(u, t)[1] : u \in Identities }
    \cup { Garbage, NoToken }

InitJwt ==
    /\ Elsewhere
    /\ Quiet
    /\ now \in Instants
    /\ jumps = 0
    /\ users = [e \in Emails |-> NilUser]
    /\ creds = [i \in Ids |-> NoHash]
    /\ nextId = 1
    /\ \E c \in AccessCandidates(now), r \in RefreshCandidates(now) :
          last = [NoRequest EXCEPT !.op = "CheckSession", !.at = now,
                                   !.a = c.a, !.r = r, !.subject = c.subject,
                                   !.issuedAt = c.issuedAt, !.path = "pending"]

\* the pairs minted so far for the refresh token presented, v the verdict
\* of the request being served
Rotations(v) ==
    last.rotations + IF VerifyState(v) = "EXPIRED_RETRYABLE" THEN 1 ELSE 0

\* POST /auth/session as it would be if a refresh token could be used for
\* one rotation only
CheckSessionReq_SingleUse ==
    /\ last.op = "CheckSession"
    /\ last.path = "pending"
    /\ \E v \in {IF last.rotations > 0
                 THEN Verdict(NoToken, NoToken, NilUser, "jwt.ErrUserUnauthorized")
                 ELSE CheckCookie(last.a, last.r, now)} :
          last' = [last EXCEPT !.user = v.user, !.access = v.access,
                               !.refresh = v.refresh, !.err = v.err,
                               !.path = VerifyState(v),
                               !.http = CheckSessionResponse(v.err),
                               !.rotations = Rotations(v)]
    /\ UNCHANGED <<now, jumps, users, creds, nextId, txs, committed, table, walk, msgdb>>

\* POST /auth/session: cookie.CheckCookie hands the two cookies to
\* VerifyAccessToken and its error to session.CheckSession; path becomes
\* the state of the verification state machine
CheckSessionReq ==
    /\ last.op = "CheckSession"
    /\ last.path = "pending"
    /\ \E v \in {CheckCookie(last.a, last.r, now)} :
          last' = [last EXCEPT !.user = v.user, !.access = v.access,
                               !.refresh = v.refresh, !.err = v.err,
                               !.path = VerifyState(v),
                               !.http = CheckSessionResponse(v.err),
                               !.rotations = Rotations(v)]
    /\ UNCHANGED <<now, jumps, users, creds, nextId, txs, committed, table, walk, msgdb>>

NextJwt == CheckSessionReq

SpecJwt == InitJwt /\ [][NextJwt]_vars

---------------------------------------------------------------------------
(* One pair presented again and again.  A client keeps the pair it was    *)
(* issued and sends it with every request while time passes, whatever new *)
(* pair the service answered with.                                         *)

\* the steps of the clock between two requests
ReplayJumps ==
    {1, accessDuration, refreshDuration - accessDuration - 1,
     refreshDuration - 1, refreshDuration}

InitReplay ==
    /\ Elsewhere
    /\ Quiet
    /\ now \in {0, 1}
    /\ jumps = 0
    /\ users = [e \in Emails |-> NilUser]
    /\ creds = [i \in Ids |-> NoHash]
    /\ nextId = 1
    /\ \E u \in Identities :
          last = [NoRequest EXCEPT !.op = "CheckSession", !.at = now,
                                   !.a = NewPairTokens(u, now)[1],
                                   !.r = NewPairTokens(u, now)[2],
                                   !.subject = u, !.issuedAt = now,
                                   !.path = "pending"]

\* the client sends the cookies of the request served last once more
PresentAgain ==
    /\ last.op = "CheckSession"
    /\ last.path # "pending"
    /\ last.rotations < MaxReplays
    /\ last' = [last EXCEPT !.at = now, !.user = NilUser, !.access = NoToken,
                            !.refresh = NoToken, !.err = "",
                            !.path = "pending", !.http = NoResponse]
    /\ UNCHANGED <<now, jumps, users, creds, nextId, txs, committed, table, walk, msgdb>>

NextReplay ==
    \/ \E d \in ReplayJumps : Tick(d)
    \/ PresentAgain
    \/ CheckSessionReq

SpecReplay == InitReplay /\ [][NextReplay]_vars

---------------------------------------------------------------------------
(* The user service: its users table and Storage.Profiles.  A row has the *)
(* columns the queries name: id, email, username, name, created_at.  A     *)
(* username is the sequence of its characters, so that ILIKE can be        *)
(* computed.                                                               *)

Row(id, email, username, name, createdAt) ==
    [username |-> username, email |-> email, id |-> id, name |-> name,
     createdAt |-> createdAt]

\* models.UserInfo, what the queries scan of a row
UserInfo(row) ==
    [uuid |-> row.id, username |-> row.username, email |-> row.email,
     name |-> row.name]

NoInfo == [uuid |-> 0, username |-> <<>>, email |-> "", name |-> ""]

\* lower case, over the letters the model's usernames are written with
Lower(ch) ==
    IF ch = "N" THEN "n" ELSE IF ch = "E" THEN "e" ELSE ch

\* s ILIKE p: % stands for any run of characters, _ for any one character,
\* every other character for itself in either case
RECURSIVE ILike(_, _)
ILike(s, p) ==
    IF p = <<>> THEN s = <<>>
    ELSE IF Head(p) = "%"
    THEN ILike(s, Tail(p)) \/ (s # <<>> /\ ILike(Tail(s), p))
    ELSE /\ s # <<>>
         /\ Head(p) = "_" \/ Lower(Head(p)) = Lower(Head(s))
         /\ ILike(Tail(s), Tail(p))

\* (created_at, id) < (c, u), the row comparison of SQL
RowLess(a, b) == a[1] < b[1] \/ (a[1] = b[1] /\ a[2] < b[2])

RowKey(row) == <<row.createdAt, row.id>>

\* ORDER BY created_at DESC, id DESC
RECURSIVE OrderDesc(_)
OrderDesc(rows) ==
    IF rows = {} THEN <<>>
    ELSE LET top == CHOOSE r \in rows :
                       \A q \in rows \ {r} : RowLess(RowKey(q), RowKey(r))
         IN  <<top>> \o OrderDesc(rows \ {top})

\* LIMIT n
Limit(seq, n) == SubSeq(seq, 1, IF Len(seq) < n THEN Len(seq) ELSE n)

\* time.Time as encoding/json writes it (RFC 3339 with the fraction of the
\* second): <<seconds, fraction>>, and as it reads it back
MarshalTime(t) == <<t \div TicksPerSec, t % TicksPerSec>>

UnmarshalTime(j) == j[1] * TicksPerSec + j[2]

\* pageCursor in its base64 JSON form: created_at and the id's string
pageCursor(row) == [c |-> MarshalTime(row.createdAt), u |-> UuidString(row.id)]

\* the empty cursor string, and a string that is no base64 JSON
EmptyCursor == [c |-> <<>>, u |-> NoUuidClaim]

BadCursor == [c |-> <<>>, u |-> IllTypedUuidClaim]

\* models.Cursor
Cursor(nextCursor, hasNextPage) ==
    [NextCursor |-> nextCursor, HasNextPage |-> hasNextPage]

\* what Profiles returns: (profiles, cursor, err)
Page(profiles, rcursor, err) ==
    [profiles |-> profiles, rcursor |-> rcursor, err |-> err]

\* the rows of t the query of Storage.Profiles selects, in its order
ProfilesQuery(t, username, cursor) ==
    OrderDesc({ r \in t :
        /\ ILike(r.username, Append(username, "%"))
        /\ cursor # EmptyCursor =>
              RowLess(RowKey(r), <<UnmarshalTime(cursor.c), cursor.u.id>>) })

\* Storage.Profiles as it would be if its cursor compared created_at alone
StorageProfiles_CursorByTime(t, username, cursor, limit) ==
    LET fetched == Limit(OrderDesc({ r \in t :
                       /\ ILike(r.username, Append(username, "%"))
                       /\ cursor # EmptyCursor =>
                             r.createdAt < UnmarshalTime(cursor.c) }), limit + 1)
        hasNextPage == Len(fetched) > limit
        profiles == IF hasNextPage THEN SubSeq(fetched, 1, limit) ELSE fetched
    IN  IF cursor = BadCursor
        THEN Page(<<>>, Cursor(EmptyCursor, FALSE), "invalid cursor format")
        ELSE IF Len(fetched) = 0
        THEN Page(<<>>, Cursor(EmptyCursor, FALSE), "")
        ELSE Page([i \in 1 .. Len(profiles) |-> UserInfo(profiles[i])],
                  Cursor(pageCursor(profiles[Len(profiles)]), hasNextPage), "")

\* Storage.Profiles, for a limit of at least 1 (the handler refuses others)
StorageProfiles(t, username, cursor, limit) ==
    LET fetched == Limit(ProfilesQuery(t, username, cursor), limit + 1)
        hasNextPage == Len(fetched) > limit
        profiles == IF hasNextPage THEN SubSeq(fetched, 1, limit) ELSE fetched
    IN  IF cursor = BadCursor
        THEN Page(<<>>, Cursor(EmptyCursor, FALSE), "invalid cursor format")
        ELSE IF Len(fetched) = 0
        THEN Page(<<>>, Cursor(EmptyCursor, FALSE), "")
        ELSE Page([i \in 1 .. Len(profiles) |-> UserInfo(profiles[i])],
                  Cursor(pageCursor(profiles[Len(profiles)]), hasNextPage), "")

\* UserDataService.Profiles: the store's answer, its error wrapped
ServiceProfiles(t, username, cursor, limit) ==
    StorageProfiles(t, username, cursor, limit)

\* UserHandler.Profiles for the query parameters username, cursor and
\* limit: <<status, page>>.  The cursor parameter is read and then left
\* out: the variable handed to the service is the empty string whatever
\* the parameter was
HandlerProfiles(t, username, stringCursor, limit) ==
    LET cursor == EmptyCursor
        out == ServiceProfiles(t, username, cursor, limit)
        Nothing == Page(<<>>, Cursor(EmptyCursor, FALSE), "")
    IN  IF username = <<>> THEN <<200, Nothing>>
        ELSE IF limit < 1 THEN <<400, Nothing>>
        ELSE IF out.err # "" THEN <<500, Nothing>>
        ELSE <<200, out>>

\* the usernames and emails of the rows, by id
ProfileNames ==
    << <<"n", "e", "o">>, <<"N", "e", "o", "n">>, <<"n", "x", "o">>,
       <<"t", "r", "i">>, <<"n", "e">>, <<"N">> >>

ProfileEmails ==
    <<"a@x.com", "b@x.com", "c@x.com", "d@x.com", "e@x.com", "f@x.com">>

\* the instants rows were created at
CreatedAts == {1, TicksPerSec}

\* the users tables paged through: any rows with distinct ids
Tables ==
    { t \in SUBSET { Row(i, ProfileEmails[i], ProfileNames[i], "nameless", c) :
                       i \in 1 .. MaxRows, c \in CreatedAts } :
        \A r, q \in t : r.id = q.id => r = q }

\* the prefixes clients search for
Prefixes == { <<"n">>, <<"N", "E">>, <<"n", "_", "o">>, <<"x">> }

InitPages ==
    /\ Quiet
    /\ now = 0
    /\ jumps = 0
    /\ users = [e \in Emails |-> NilUser]
    /\ creds = [i \in Ids |-> NoHash]
    /\ nextId = 1
    /\ last = NoRequest
    /\ msgdb = NoChats
    /\ table \in Tables
    /\ \/ \E p \in Prefixes, n \in 1 .. MaxLimit :
             walk = [NoWalk EXCEPT !.via = "storage", !.username = p,
                                   !.limit = n, !.hasNext = TRUE]
       \/ \E p \in Prefixes \cup {<<>>}, n \in 0 .. MaxLimit :
             walk = [NoWalk EXCEPT !.via = "handler", !.username = p,
                                   !.limit = n, !.hasNext = TRUE]

\* the walk after a page came back with status
Walked(status, out) ==
    [walk EXCEPT !.cursor = out.rcursor.NextCursor,
                 !.hasNext = out.rcursor.HasNextPage,
                 !.page = out.profiles,
                 !.seen = walk.seen \o out.profiles,
                 !.calls = walk.calls + 1,
                 !.status = status]

\* a caller of Storage.Profiles asks for the next page with the cursor the
\* page before returned
ProfilesCall ==
    /\ walk.via = "storage"
    /\ walk.hasNext
    /\ \E out \in {StorageProfiles(table, walk.username, walk.cursor,
                                    walk.limit)} :
          walk' = Walked(IF out.err = "" THEN 200 ELSE 500, out)
    /\ UNCHANGED <<now, jumps, users, creds, nextId, last, txs, committed,
                   table, msgdb>>

\* GET /user/list-profiles with the cursor the page before returned
ProfilesReq ==
    /\ walk.via = "handler"
    /\ walk.hasNext
    /\ walk.calls < MaxCalls
    /\ \E res \in {HandlerProfiles(table, walk.username, walk.cursor,
                                    walk.limit)} :
          walk' = Walked(res[1], res[2])
    /\ UNCHANGED <<now, jumps, users, creds, nextId, last, txs, committed,
                   table, msgdb>>

NextPages ==
    \/ ProfilesCall
    \/ ProfilesReq

SpecPages == InitPages /\ [][NextPages]_vars

---------------------------------------------------------------------------
(* The user service: UpdateInfo and the updates of Storage.  Each update  *)
(* runs in a transaction of its own.  An update meets at most one failure *)
(* (kind): fail, Begin or the UPDATE fails with a timeout; commit, the     *)
(* deferred Commit fails.  The users table is taken to have unique         *)
(* usernames and emails, the violations the updates look for.              *)

\* what a call ends with when a type assertion without ok meets an error
\* of another type: it panics, no value is returned
PanicError == "panic: interface conversion: error is not *pgconn.PgError"

\* the row of t with the username, as a set
RowsNamed(t, username) == { r \in t : r.username = username }

\* t with the row r replaced by q
Replaced(t, r, q) == (t \ {r}) \cup {q}

\* the outcome of an UPDATE ... WHERE username = $2 RETURNING ... setting
\* the row r to q[r], clash[r] telling whether q[r] violates a unique index;
\* <<table, info, row.Scan's error>>.  A failed Commit leaves the table as
\* it was and is not reported: the result is unnamed and the deferred
\* function assigns to a variable nobody reads
UpdateRow(t, username, q, clash, kind) ==
    IF kind = "fail" THEN <<t, NoInfo, "context.DeadlineExceeded">>
    ELSE IF RowsNamed(t, username) = {} THEN <<t, NoInfo, "pgx.ErrNoRows">>
    ELSE LET r == CHOOSE r \in RowsNamed(t, username) : TRUE
         IN  IF clash[r] THEN <<t, NoInfo, "pgconn.PgError 23505">>
             ELSE IF kind = "commit" THEN <<t, UserInfo(q[r]), "">>
             ELSE <<Replaced(t, r, q[r]), UserInfo(q[r]), "">>

\* Storage.ChangeName: <<table, info, err>>
StorageChangeName(t, username, newName, kind) ==
    LET q == [r \in t |-> [r EXCEPT !.name = newName]]
        clash == [r \in t |-> FALSE]
    IN  UpdateRow(t, username, q, clash, kind)

\* what Storage.ChangeUsername and Storage.ChangeEmail make of the error of
\* row.Scan: pgErr := err.(*pgconn.PgError) panics unless err is one
Asserted(out, exists) ==
    IF out[3] = "" THEN out
    ELSE IF out[3] = "pgconn.PgError 23505" THEN <<out[1], NoInfo, exists>>
    ELSE <<out[1], NoInfo, PanicError>>

\* Storage.ChangeEmail: <<table, info, err>>
StorageChangeEmail(t, username, newEmail, kind) ==
    LET q == [r \in t |-> [r EXCEPT !.email = newEmail]]
        clash == [r \in t |-> \E o \in t \ {r} : o.email = newEmail]
    IN  Asserted(UpdateRow(t, username, q, clash, kind),
                 "storage.ErrEmailExists")

\* Storage.ChangeUsername: <<table, info, err>>
StorageChangeUsername(t, oldUsername, newUsername, kind) ==
    LET q == [r \in t |-> [r EXCEPT !.username = newUsername]]
        clash == [r \in t |-> \E o \in t \ {r} : o.username = newUsername]
    IN  Asserted(UpdateRow(t, oldUsername, q, clash, kind),
                 "storage.ErrUsernameExists")

\* models.NewUserInfo; an empty field asks for no change
NewUserInfo(name, email, username) ==
    [username |-> username, email |-> email, name |-> name]

\* the failures a request can meet, and the kind a given update meets
UpdateFaults ==
    {"none", "name-fail", "email-fail", "username-fail", "username-commit"}

KindFor(call, fault) ==
    IF fault = call \o "-fail" THEN "fail"
    ELSE IF fault = call \o "-commit" THEN "commit"
    ELSE "none"

\* what UpdateInfo returns (info, accessToken, refreshToken, err) and the
\* table it leaves
Updated(info, access, refresh, err, t) ==
    [info |-> info, access |-> access, refresh |-> refresh, err |-> err,
     table |-> t]

\* models.InfoToNormalized
InfoToNormalized(info) == NormalizedUser(info.uuid, info.username, info.email)

\* UserDataService.UpdateInfo at instant now.  The info of the username
\* update is declared anew inside its block (info, err := ...), so the info
\* returned is that of the name or email update, nil without one
UpdateInfo(t, username, newInfo, fault, at) ==
    LET cn == IF newInfo.name # ""
              THEN StorageChangeName(t, username, newInfo.name,
                                     KindFor("name", fault))
              ELSE <<t, NoInfo, "">>
        ce == IF newInfo.email # ""
              THEN StorageChangeEmail(cn[1], username, newInfo.email,
                                      KindFor("email", fault))
              ELSE <<cn[1], cn[2], "">>
        cu == StorageChangeUsername(ce[1], username, newInfo.username,
                                    KindFor("username", fault))
        pair == NewPairTokens(InfoToNormalized(cu[2]), at)
        Fail(err, tbl) == Updated(NoInfo, NoToken, NoToken, err, tbl)
    IN  IF cn[3] # "" THEN Fail(cn[3], cn[1])
        ELSE IF ce[3] = "storage.ErrEmailExists"
        THEN Fail("user.ErrEmailExists", ce[1])
        ELSE IF ce[3] # "" THEN Fail(ce[3], ce[1])
        ELSE IF newInfo.username = <<>>
        THEN Updated(ce[2], NoToken, NoToken, "", ce[1])
        ELSE IF cu[3] = "storage.ErrUsernameExists"
        THEN Fail("user.ErrUsernameExists", cu[1])
        ELSE IF cu[3] # "" THEN Fail(cu[3], cu[1])
        ELSE Updated(ce[2], pair[1], pair[2], "", cu[1])

\* UserHandler.UpdateInfo's answer; a panic leaves the handler before it
\* writes one
UpdateInfoResponse(err) ==
    IF err = "" THEN Response(200, 200, "info")
    ELSE IF err = PanicError THEN NoResponse
    ELSE IF err = "user.ErrUsernameExists"
    THEN Response(409, 409, "username already exists")
    ELSE IF err = "user.ErrEmailExists"
    THEN Response(409, 409, "email already exists")
    ELSE Response(400, 400, "failed to update user information")

\* the record of a request to the user service
UserRequest(op, username, newInfo, fault) ==
    [username |-> username, newInfo |-> newInfo, info |-> NoInfo]
        @@ [NoRequest EXCEPT !.op = op, !.at = now, !.fault = fault]

\* the update-info request of the user the cookie names
UpdateInfoReq(username, newInfo, fault) ==
    /\ \E out \in {UpdateInfo(table, username, newInfo, fault, now)} :
          /\ table' = out.table
          /\ last' = [UserRequest("UpdateInfo", username, newInfo, fault)
                         EXCEPT !.info = out.info, !.access = out.access,
                                !.refresh = out.refresh, !.err = out.err,
                                !.http = UpdateInfoResponse(out.err)]
    /\ UNCHANGED <<now, jumps, users, creds, nextId, txs, committed, walk,
                   msgdb>>

\* a call of Storage.ChangeUsername
ChangeUsernameCall(oldUsername, newUsername, kind) ==
    /\ \E out \in {StorageChangeUsername(table, oldUsername, newUsername, kind)} :
          /\ table' = out[1]
          /\ last' = [UserRequest("ChangeUsername", oldUsername,
                                   NewUserInfo("", "", newUsername), kind)
                         EXCEPT !.info = out[2], !.err = out[3]]
    /\ UNCHANGED <<now, jumps, users, creds, nextId, txs, committed, walk,
                   msgdb>>

\* a call of Storage.ChangeEmail
ChangeEmailCall(username, newEmail, kind) ==
    /\ \E out \in {StorageChangeEmail(table, username, newEmail, kind)} :
          /\ table' = out[1]
          /\ last' = [UserRequest("ChangeEmail", username,
                                   NewUserInfo("", newEmail, <<>>), kind)
                         EXCEPT !.info = out[2], !.err = out[3]]
    /\ UNCHANGED <<now, jumps, users, creds, nextId, txs, committed, walk,
                   msgdb>>

\* the usernames the cookies of the requests name, one of them of no row
\* at the start, and the usernames, names and emails they ask for
RequestNames == { ProfileNames[1], ProfileNames[3] }

NewUsernames == { ProfileNames[1], ProfileNames[2], ProfileNames[3] }

NewNames == {"", "Neo"}

NewEmails == {"", "b@x.com", "c@x.com"}

InitUser ==
    /\ Quiet
    /\ now = 0
    /\ jumps = 0
    /\ users = [e \in Emails |-> NilUser]
    /\ creds = [i \in Ids |-> NoHash]
    /\ nextId = 1
    /\ last = UserRequest("", <<>>, NewUserInfo("", "", <<>>), "none")
    /\ msgdb = NoChats
    /\ walk = NoWalk
    /\ table = { Row(1, "a@x.com", ProfileNames[1], "nameless", 1),
                 Row(2, "b@x.com", ProfileNames[2], "nameless", 1) }

NextUser ==
    \/ \E u \in RequestNames, n \in NewNames, e \in NewEmails,
          v \in (NewUsernames \ {ProfileNames[1]}) \cup {<<>>},
          f \in UpdateFaults :
          UpdateInfoReq(u, NewUserInfo(n, e, v), f)
    \/ \E u \in RequestNames, v \in NewUsernames,
          k \in {"none", "fail", "commit"} :
          ChangeUsernameCall(u, v, k)
    \/ \E u \in RequestNames, e \in NewEmails \ {""},
          k \in {"none", "fail", "commit"} :
          ChangeEmailCall(u, e, k)

SpecUser == InitUser /\ [][NextUser]_vars

-----------------------------------------------------------------------------
\* The message service's chat store
\* (message-service/internal/provider/storage/postgres/message.go).

\* the id INSERT INTO chats DEFAULT VALUES RETURNING id hands out: the next
\* value of the column's sequence; no statement of the service deletes a chat
NextChatID(db) == Cardinality(db.chats) + 1

\* the rows CopyFrom is given: one (chat_id, user_id) for every user
MembershipRows(chatID, userIDs) == { <<chatID, u>> : u \in userIDs }

\* Storage.NewChat: a transaction is begun and, on return, rolled back or
\* committed by the deferred closure, but both statements are sent on s.pool
\* and not on tx: each takes a connection of its own and commits by
\* itself, and the transaction holds no statement to undo or to commit.
\* Returns <<db, chatID, err>>.
StorageNewChat(db, userIDs, fault) ==
    IF fault = "begin-fail" THEN <<db, 0, "context.DeadlineExceeded">>
    ELSE IF fault = "insert-fail"
    THEN <<db, 0, "storage.ErrFailedToCreateChat">>
    ELSE LET chatID == NextChatID(db)
             inserted == [db EXCEPT !.chats = @ \cup {chatID}]
             copied == [inserted EXCEPT !.user_chats =
                            @ \cup MembershipRows(chatID, userIDs)]
         IN  IF fault = "copy-fail"
             THEN <<inserted, 0,
                    "storage.ErrFailedToAddUsersInChat">>
             ELSE IF fault = "commit-fail"
             THEN <<copied, chatID,
                    "commit: context.DeadlineExceeded">>
             ELSE <<copied, chatID, "">>

\* the failures a call can meet
ChatFaults == {"none", "begin-fail", "insert-fail", "copy-fail", "commit-fail"}

\* the users the callers name
ChatUsers == {1, 2, 3}

\* a call of Storage.NewChat and what it returned
ChatRequest(userIDs, fault) ==
    [userIDs |-> userIDs, chatID |-> 0]
        @@ [NoRequest EXCEPT !.op = "NewChat", !.at = now, !.fault = fault]

NewChatCall(userIDs, fault) ==
    /\ Cardinality(msgdb.chats) < MaxChats
    /\ \E out \in {StorageNewChat(msgdb, userIDs, fault)} :
          /\ msgdb' = out[1]
          /\ last' = [ChatRequest(userIDs, fault)
                         EXCEPT !.chatID = out[2], !.err = out[3]]
    /\ UNCHANGED <<now, jumps, users, creds, nextId, txs, committed, table,
                   walk>>

InitChat ==
    /\ Quiet
    /\ now = 0
    /\ jumps = 0
    /\ users = [e \in Emails |-> NilUser]
    /\ creds = [i \in Ids |-> NoHash]
    /\ nextId = 1
    /\ last = NoRequest
    /\ table = {}
    /\ walk = NoWalk
    /\ msgdb = NoChats

NextChat ==
    \E userIDs \in (SUBSET ChatUsers) \ {{}}, f \in ChatFaults :
        NewChatCall(userIDs, f)

SpecChat == InitChat /\ [][NextChat]_vars

---------------------------------------------------------------------------
(* Claims about token verification, checked under SpecJwt *)

\* a session check that has been served
Checked == last.op = "CheckSession" /\ last.path # "pending"

\* the presented access token is the one NewPairTokens minted for
\* last.subject at last.issuedAt
PresentsMinted ==
    /\ last.issuedAt >= 0
    /\ last.a = NewPairTokens(last.subject, last.issuedAt)[1]

\* the verdict of the VALID state for identity u
ValidFor(u) ==
    /\ last.err = ""
    /\ last.user = u
    /\ last.access = NoToken
    /\ last.refresh = NoToken

\* C1 as stated: at every time strictly within ACCESS_TTL of issuance,
\* verifying a minted access token returns its identity, a nil error and no
\* new tokens, whatever the refresh token is
C1_AsStated ==
    (Checked /\ PresentsMinted /\ last.at - last.issuedAt < accessDuration)
        => ValidFor(last.subject)

\* C1 amended: the same at every time strictly before the token's exp, the
\* issue time plus ACCESS_TTL cut down to a whole Unix second
C1_ValidBeforeExp ==
    (Checked /\ PresentsMinted
       /\ last.at < FromUnix(Unix(last.issuedAt + accessDuration)))
        => ValidFor(last.subject)

\* a minted token verified the tick before its exp, beside a garbage
\* refresh token
C1_Witness ==
    /\ Checked /\ PresentsMinted
    /\ last.at = FromUnix(last.a.exp) - 1
    /\ last.issuedAt < last.at
    /\ last.r = Garbage
    /\ ValidFor(last.subject)

\* the access token fails verification, its payload yields an identity and
\* the refresh token verifies: the refresh path
RefreshPath ==
    /\ Checked
    /\ JwtParse(last.a, "somesecret", TRUE, last.at) # ""
    /\ extractUserFromClaims(ParsedClaims(last.a))[2] = ""
    /\ JwtParse(last.r, "secret", FALSE, last.at) = ""

\* C2: on the refresh path the verdict is an identity with a newly minted
\* pair, and that pair is never the presented pair
C2_RotationYieldsNewPair ==
    RefreshPath =>
        /\ last.err = ""
        /\ last.user # NilUser
        /\ <<last.access, last.refresh>> = NewPairTokens(last.user, last.at)
        /\ <<last.access, last.refresh>> # <<last.a, last.r>>

\* an expired minted access token presented with the refresh token minted
\* with it, which still verifies
C2_Witness ==
    /\ Checked /\ PresentsMinted
    /\ last.r = NewPairTokens(last.subject, last.issuedAt)[2]
    /\ last.at >= FromUnix(last.a.exp)
    /\ last.path = "EXPIRED_RETRYABLE"
    /\ last.user = last.subject

\* C3: a verdict with an error carries no identity and no tokens
C3_NoDisclosureOnRejection ==
    (Checked /\ last.err # "") =>
        /\ last.user = NilUser
        /\ last.access = NoToken
        /\ last.refresh = NoToken

\* an expired minted access token beside a garbage refresh token is refused
C3_Witness ==
    /\ Checked /\ PresentsMinted
    /\ last.at >= FromUnix(last.a.exp)
    /\ last.r = Garbage
    /\ last.err # ""
    /\ last.user = NilUser

\* C4 as stated: every refusal is ErrUserUnauthorized, which CheckSession
\* answers with 401
C4_EveryRefusalUnauthorized ==
    (Checked /\ last.err # "") =>
        /\ last.err = "jwt.ErrUserUnauthorized"
        /\ last.http.status = 401

\* C5: on the refresh path the identity returned, and carried by the new
\* access token, is the one the unverified access payload names
C5_IdentityFromUnverifiedClaims ==
    RefreshPath =>
        /\ last.err = ""
        /\ last.user = extractUserFromClaims(ParsedClaims(last.a))[1]
        /\ JwtParse(last.access, "somesecret", TRUE, last.at) = ""
        /\ extractUserFromClaims(ParsedClaims(last.access))[1] = last.user

\* an access token signed with a key that is not the service's, naming an
\* identity, authenticates as that identity beside a valid refresh token
C5_Witness ==
    /\ Checked
    /\ last.a.key = "other"
    /\ last.r.key = "secret"
    /\ last.err = ""
    /\ last.user \in Identities
    /\ last.access.uuid = UuidString(last.user.uuid)

---------------------------------------------------------------------------
(* Claims about Login, Register and ChangePassword, checked under Spec and *)
(* SpecFaults.  last is the request served last; a step that serves a      *)
(* request leaves the clock alone, so in such a step last is the request   *)
(* before it and last' the request it serves.                              *)

\* the hash stored for the identity registered under email e, NoHash when
\* there is none: in identities u and credentials c, and in this state
HashIn(u, c, e) == IF u[e] = NilUser THEN NoHash ELSE c[u[e].uuid]

StoredHash(e) == HashIn(users, creds, e)

\* the last request answered as a refused login is
RefusedLogin ==
    /\ last.err = "auth.ErrInvalidCredentials"
    /\ last.http = Response(409, 409, "invalid email or password")

LoginFollows(op) ==
    /\ last.op = op
    /\ last.err = ""
    /\ now' = now
    /\ last'.op = "Login"
    /\ last'.email = last.email
    /\ last'.fault = "none"

\* C7 as stated: after Register(e, p) succeeded with identity I1, Login(e, p')
\* succeeds with I1 exactly when p' = p and is ErrInvalidCredentials otherwise
C7_LoginAfterRegister ==
    [][LoginFollows("Register") =>
          IF last'.password = last.password
          THEN last'.err = "" /\ last'.user = last.user
          ELSE last'.err = "auth.ErrInvalidCredentials"]_vars

\* C8 as stated: the token pair of a login after a registration differs from
\* the pair the registration returned
C8_LoginPairDiffers ==
    [][(LoginFollows("Register") /\ last'.err = "") =>
          <<last'.access, last'.refresh>> # <<last.access, last.refresh>>]_vars

\* C9 as stated: after ChangePassword(e, old, new) succeeded, Login(e, old)
\* is ErrInvalidCredentials and Login(e, new) succeeds
C9_LoginAfterChangePassword ==
    [][LoginFollows("ChangePassword") =>
          /\ (last'.password = last.password =>
                 last'.err = "auth.ErrInvalidCredentials")
          /\ (last'.password = last.newPassword => last'.err = "")]_vars

\* C10: a ChangePassword whose previous password does not match the stored
\* hash returns ErrInvalidCredentials, issues no store write and leaves the
\* stored hash, hence what every password's login finds, as it was
C10_MismatchWritesNothing ==
    [][(/\ now' = now
        /\ last'.op = "ChangePassword"
        /\ last'.fault \notin {"user", "read-fail", "read-commit"}
        /\ StoredHash(last'.email) # NoHash
        /\ ~CompareHashAndPassword(StoredHash(last'.email), last'.password))
          => /\ last'.err = "auth.ErrInvalidCredentials"
             /\ ~last'.wrote
             /\ creds' = creds
             /\ \A p \in Passwords :
                   CompareHashAndPassword(HashIn(users', creds', last'.email), p)
                     = CompareHashAndPassword(StoredHash(last'.email), p)]_vars

\* a refused change with a wrong previous password, after which the real
\* password still matches the stored hash
C10_Witness ==
    /\ last.op = "ChangePassword"
    /\ last.err = "auth.ErrInvalidCredentials"
    /\ ~last.wrote
    /\ last.password # last.newPassword
    /\ StoredHash(last.email) # NoHash
    /\ ~CompareHashAndPassword(StoredHash(last.email), last.password)
    /\ ~CompareHashAndPassword(StoredHash(last.email), last.newPassword)
    /\ \E p \in Passwords : Login(last.email, p, "none", now).err = ""

\* the step serves a request of kind op with no collaborator failing
Serves(op) ==
    /\ now' = now
    /\ last'.op = op
    /\ last'.fault = "none"

\* C11 as stated: a Register for an email that is registered, identity and
\* credential, returns ErrUserExists, answered 409 "user already exists",
\* and leaves the identity and the credential of the first call as they were
C11_SecondRegisterConflicts ==
    [][(Serves("Register") /\ StoredHash(last'.email) # NoHash) =>
          /\ last'.err = "auth.ErrUserExists"
          /\ last'.http = Response(409, 409, "user already exists")
          /\ users' = users
          /\ creds' = creds]_vars

\* C12 as stated: in every state an identity exists iff a credential exists
\* for it, whatever failed in the requests served so far
C12_IdentityIffCredential ==
    /\ \A e \in Emails : users[e] # NilUser => creds[users[e].uuid] # NoHash
    /\ \A i \in Ids :
          creds[i] # NoHash => \E e \in Emails : users[e].uuid = i

\* C13 as stated: a store write (Storage.Register, Storage.ChangePassword)
\* that returned nil was committed, the row holding the hash of the password
\* it was called for, and a write whose commit failed returned an error and
\* left the table as it was
C13_SuccessOnlyIfCommitted ==
    [][(/\ now' = now
        /\ last'.op \in {"Register", "ChangePassword", "ResetPassword"}
        /\ last'.wrote)
          => /\ last'.path = "ok" =>
                   CompareHashAndPassword(
                       HashIn(users', creds', last'.email),
                       IF last'.op = "Register" THEN last'.password
                       ELSE last'.newPassword)
             /\ last'.fault = "write-commit" =>
                   (last'.path # "ok" /\ creds' = creds)]_vars

\* C14 as stated: a ResetPassword that returned ok has handed the plaintext
\* of the generated secret to a collaborator
C14_SecretHandedOver ==
    (last.op = "ResetPassword" /\ last.err = "") =>
        \E i \in DOMAIN ResetPasswordCalls(last.path) :
            ResetPasswordCalls(last.path)[i].secret

\* C15 as stated: a ResetPassword that returned ok for a registered email
\* replaced the hash of that identity and of no other: afterwards a login
\* with the generated secret succeeds and a login with a password that
\* logged in before, the secret being fresh, is ErrInvalidCredentials
C15_ResetReplacesCredential ==
    [][(/\ now' = now
        /\ last'.op = "ResetPassword"
        /\ last'.err = ""
        /\ users[last'.email] # NilUser)
          => \E e \in {last'.email}, k \in {last'.newPassword} :
               /\ (Login(e, k, "none", now).err)' = ""
               /\ \A p \in Passwords \ {k} :
                     Login(e, p, "none", now).err = "" =>
                       (Login(e, p, "none", now).err)'
                           = "auth.ErrInvalidCredentials"
               /\ \A i \in Ids \ {users[e].uuid} : creds'[i] = creds[i]]_vars

\* the collaborator calls the request served last has made
CallsOfLast ==
    IF last.op = "ChangePassword" THEN ChangePasswordCalls(last.path)
    ELSE IF last.op = "ResetPassword" THEN ResetPasswordCalls(last.path)
    ELSE <<>>

C17_NoRawPersistenceError ==
    last.op \in {"Register", "Login", "ChangePassword", "ResetPassword"}
        => last.err \notin RawPersistenceErrors

FaultMet ==
    \/ last'.fault = "user"
    \/ /\ last'.fault = "read-fail"
       /\ last'.op \in {"Login", "ChangePassword"}
       /\ users[last'.email] # NilUser
    \/ /\ last'.fault = "read-commit"
       /\ last'.op \in {"Login", "ChangePassword"}
       /\ StoredHash(last'.email) # NoHash
    \/ /\ last'.fault = "write-fail"
       /\ last'.wrote
    \/ /\ last'.fault = "write-commit"
       /\ last'.wrote
       /\ StoredHash(last'.email) # NoHash

\* the errors of the service that speak of the request, not of a failure
DomainErrors ==
    {"auth.ErrInvalidCredentials", "auth.ErrUserExists", "auth.ErrUserNotFound"}

\* C19: a timeout, a cancelled context or an I/O failure in the identity
\* lookup or in a credential store call during Login, ChangePassword or
\* ResetPassword leaves the stored hash as it was and makes the operation
\* return an error that is none of ErrInvalidCredentials, ErrUserExists and
\* ErrUserNotFound.
C19_FailuresSurfaceTransient ==
    [][(/\ now' = now
        /\ last'.op \in {"Login", "ChangePassword", "ResetPassword"}
        /\ FaultMet)
          => /\ creds' = creds
             /\ last'.err # ""
             /\ last'.err \notin DomainErrors]_vars

\* the presented tokens are the pair NewPairTokens minted for last.subject
\* at last.issuedAt
PresentsPair ==
    /\ PresentsMinted
    /\ last.r = NewPairTokens(last.subject, last.issuedAt)[2]

\* C20: a pair issued at Unix time t carries exp = t + 15 minutes in its
\* access token and exp = t + 30 days (43200 minutes) in its refresh token,
\* both in the whole seconds of an exp claim.  Whenever the access token of
\* the pair is unexpired its refresh token is unexpired too, and at every
\* time from the access token's expiry up to the refresh token's, verifying
\* the pair takes the rotation path, neither REJECTED nor VALID.
C20_TokenLifetimes ==
    (Checked /\ PresentsPair) =>
        /\ last.a.exp = Unix(last.issuedAt) + 15 * 60
        /\ last.r.exp = Unix(last.issuedAt) + 30 * 24 * 60 * 60
        /\ last.r.exp = Unix(last.issuedAt) + 43200 * 60
        /\ JwtParse(last.a, "somesecret", TRUE, last.at) = ""
              => JwtParse(last.r, "secret", FALSE, last.at) = ""
        /\ (FromUnix(last.a.exp) <= last.at /\ last.at < FromUnix(last.r.exp))
              => /\ last.path = "EXPIRED_RETRYABLE"
                 /\ RefreshPath

\* a pair verified the tick before its refresh token expires, long after
\* its access token did, and rotated
C20_Witness ==
    /\ Checked /\ PresentsPair
    /\ last.at = FromUnix(last.r.exp) - 1
    /\ last.at > FromUnix(last.a.exp)
    /\ last.path = "EXPIRED_RETRYABLE"
    /\ last.user = last.subject

\* tok is an access (k = 1) or refresh (k = 2) token NewPairTokens minted,
\* unexpired at the instant of the request
MintedUnexpired(tok, k) ==
    /\ \E u \in Identities, t0 \in IssueTimes(last.at) :
          tok = NewPairTokens(u, t0)[k]
    /\ last.at < FromUnix(tok.exp)

\* C21: the two kinds of token are not interchangeable.  A minted,
\* unexpired access token in the refresh position never passes refresh
\* verification, so no rotation happens; a minted, unexpired refresh token
\* in the access position never yields the VALID state.
C21_KindsNotInterchangeable ==
    Checked =>
        /\ MintedUnexpired(last.r, 1) =>
              /\ JwtParse(last.r, "secret", FALSE, last.at) # ""
              /\ last.path # "EXPIRED_RETRYABLE"
        /\ MintedUnexpired(last.a, 2) => last.path # "VALID"

\* an expired minted access token beside a fresh access token in the
\* refresh position: the request is refused although both are genuine
C21_Witness ==
    /\ Checked /\ PresentsMinted
    /\ ~(last.at < FromUnix(last.a.exp))
    /\ MintedUnexpired(last.r, 1)
    /\ last.path = "REJECTED"
    /\ last.access = NoToken

\* C22: refresh tokens are replayable for their full TTL.  A pair whose
\* refresh token has already been used for a rotation, presented again at
\* any later time before that refresh token's expiry, is answered with the
\* identity and another pair newly minted at that time; nothing the
\* earlier rotations did makes the service refuse it.
C22_RefreshReplayable ==
    [][(/\ last.op = "CheckSession" /\ last.path = "pending"
        /\ last'.path # "pending"
        /\ PresentsPair
        /\ last.rotations > 0
        /\ now < FromUnix(last.r.exp))
          => /\ last'.path = "EXPIRED_RETRYABLE"
             /\ last'.user = last.subject
             /\ <<last'.access, last'.refresh>> = NewPairTokens(last.subject, now)
             /\ last'.rotations = last.rotations + 1]_vars

\* the pair has been rotated twice, the second time on the last tick before
\* its refresh token expired
C22_Witness ==
    /\ Checked /\ PresentsPair
    /\ last.rotations = 2
    /\ last.at = now
    /\ now = FromUnix(last.r.exp) - 1
    /\ last.path = "EXPIRED_RETRYABLE"
    /\ <<last.access, last.refresh>> = NewPairTokens(last.subject, now)

\* C23: the reset-password handler invokes ResetPassword for the request
\* and answers with its result: the credential store is left as some call of
\* AuthService.ResetPassword for the request's email leaves it, and the
\* answer is a success exactly when that call returned no error.
C23_ResetHandlerReflectsResult ==
    [][(now' = now /\ last'.op = "ResetPasswordHandler")
          => \E k \in GeneratedSecrets, s \in SaltsFor(last'.email) :
               \E out \in {ResetPassword(last'.email, k, s, "none")} :
                  /\ creds' = out.creds
                  /\ (last'.http.status = 200) <=> (out.err = "")]_vars

\* C24: the check-then-replace of ChangePassword is atomic with respect to
\* other password writes.  A ChangePassword call returns ok only if the
\* previous password it presented matches the hash stored at the moment its
\* replacement is applied; so of the concurrent calls presenting the same
\* previous password at most one returns ok, and none overwrites the hash a
\* ResetPassword stored meanwhile.
C24_CheckThenReplaceAtomic ==
    [][\A w \in Writers :
          (txs[w].pc = "checked" /\ txs'[w].pc = "changed")
             => CompareHashAndPassword(creds[users[Owner].uuid], OwnerPassword)]_vars

\* the rows of the table whose username matches the prefix searched for
Matching == { r \in table : ILike(r.username, Append(walk.username, "%")) }

\* the row a returned profile was read from
RowOf(info) == CHOOSE r \in table : r.id = info.uuid

\* C25: paging through Storage.Profiles from the empty cursor with the
\* cursor each page returns, the table unchanged, returns every user whose
\* username matches the prefix exactly once, in descending (created_at, id)
\* order, at most limit a page, with HasNextPage true exactly when matching
\* users remain, and ends after finitely many calls with HasNextPage false.
C25_PagingCompleteNoDuplicates ==
    (walk.via = "storage" /\ walk.calls > 0) =>
        /\ Len(walk.page) <= walk.limit
        /\ \A i \in 1 .. Len(walk.seen) :
              /\ \E r \in Matching : walk.seen[i] = UserInfo(r)
              /\ \A j \in 1 .. Len(walk.seen) :
                    i < j => RowLess(RowKey(RowOf(walk.seen[j])),
                                     RowKey(RowOf(walk.seen[i])))
        /\ walk.hasNext <=> Len(walk.seen) < Cardinality(Matching)
        /\ ~walk.hasNext => Len(walk.seen) = Cardinality(Matching)
        /\ walk.calls > 1 =>
              (walk.calls - 1) * walk.limit < Cardinality(Matching)

\* three matching users read one a page, the first two created at the same
\* instant, and the walk has ended
C25_Witness ==
    /\ walk.via = "storage"
    /\ walk.limit = 1
    /\ walk.calls = 3
    /\ ~walk.hasNext
    /\ Len(walk.seen) = 3
    /\ Cardinality(table) > 3
    /\ RowOf(walk.seen[1]).createdAt = RowOf(walk.seen[2]).createdAt
    /\ RowOf(walk.seen[3]).createdAt < RowOf(walk.seen[2]).createdAt

\* C26: the list-profiles handler honours the cursor.  A request carrying
\* the cursor a page returned is answered with the page that follows that
\* cursor, so a client following NextCursor moves on through the result.
C26_HandlerHonoursCursor ==
    [][(/\ walk.via = "handler"
        /\ walk'.calls = walk.calls + 1
        /\ walk.cursor # EmptyCursor)
          => walk'.page = StorageProfiles(table, walk.username, walk.cursor,
                                          walk.limit).profiles]_vars

\* C27: UpdateInfo is all-or-nothing.  When it returns an error none of
\* the changes the request asked for has been persisted and no token pair
\* is returned.
C27_UpdateInfoAllOrNothing ==
    [][(last'.op = "UpdateInfo" /\ last'.err \notin {"", PanicError})
          => /\ table' = table
             /\ last'.access = NoToken
             /\ last'.refresh = NoToken]_vars

\* C28: when UpdateInfo succeeds for a request that changes the username it
\* returns the updated profile, carrying the new username, and a new token
\* pair whose access claims carry the new username; when the username is
\* not changed it returns no tokens.
C28_UpdateInfoReturnsProfile ==
    (last.op = "UpdateInfo" /\ last.err = "") =>
        IF last.newInfo.username # <<>>
        THEN /\ last.info # NoInfo
             /\ last.info.username = last.newInfo.username
             /\ last.access # NoToken
             /\ last.refresh # NoToken
             /\ last.access.username = StrClaim(last.newInfo.username)
        ELSE /\ last.access = NoToken
             /\ last.refresh = NoToken

\* C30: Storage.ChangeUsername and Storage.ChangeEmail return an error
\* value for every failure of the update.  A username that matches no row
\* and a timeout come back as ordinary errors, the call never panics, and
\* only a unique violation becomes ErrUsernameExists or ErrEmailExists.
C30_UpdateFailuresReturned ==
    last.op \in {"ChangeUsername", "ChangeEmail"} =>
        /\ last.err # PanicError
        /\ last.fault = "fail" => last.err = "context.DeadlineExceeded"
        /\ last.err \in {"storage.ErrUsernameExists", "storage.ErrEmailExists"}
              => last.fault # "fail"

\* C29: the message service's NewChat is atomic.  A call that returns an
\* error leaves the chats and user_chats tables as they were, in particular
\* no chat row stays behind when adding the members fails, and a call that
\* succeeds has added the chat row and a membership row for every user.
C29_NewChatAtomic ==
    [][last'.op = "NewChat" =>
          IF last'.err # ""
          THEN msgdb' = msgdb
          ELSE /\ last'.chatID \in msgdb'.chats \ msgdb.chats
               /\ MembershipRows(last'.chatID, last'.userIDs)
                     \subseteq msgdb'.user_chats]_vars

\* the case the claim names: adding the members failed and the call's chat
\* row is gone
C29_MembershipFailureLeavesNoChat ==
    [][(last'.op = "NewChat"
          /\ last'.err = "storage.ErrFailedToAddUsersInChat")
         => msgdb'.chats = msgdb.chats]_vars


=============================================================================
